---- MODULE Spec2Model ----
(***************************************************************************)
(* Model of src/main.js: the WebIDL -> Closure externs converter.          *)
(*                                                                         *)
(* The program is one synchronous script.  Its state is the parsed         *)
(* declaration list, the lookup tables built from it (itemsByType,         *)
(* allByName, externalIncludes), the fields it mutates on the declaration  *)
(* objects (mixins, members, extAttrs), the text accumulated in `result`   *)
(* and the output file.  One action models one iteration of each of its    *)
(* top-level loops; an uncaught exception (a failed assert or a TypeError  *)
(* raised by the engine) stops the script where it is raised.              *)
(***************************************************************************)
EXTENDS Integers, Sequences, FiniteSets, TLC

VARIABLES parsed, pc, i, itemsByType, allByName, externalIncludes,
          mixins, members, extAttrs, result, outFile, error

vars == <<parsed, pc, i, itemsByType, allByName, externalIncludes,
          mixins, members, extAttrs, result, outFile, error>>

(***************************************************************************)
(* Bounds of the model.                                                    *)
(***************************************************************************)
\* Longest free part of a declaration list of the merge family.
MaxMerge == 6
\* Longest declaration list of the indexing family.
MaxIndex == 3
\* Depth at which the engine's call stack is exhausted (RangeError).
MaxStack == 12

(***************************************************************************)
(* JavaScript values.                                                      *)
(***************************************************************************)
\* A table slot holding no own property.
Undefined == 0
\* A property every object literal inherits from Object.prototype (a
\* function): what `{}[name]` yields for a name such as toString.
Inherited == -1
\* The names the model draws that Object.prototype defines.
ObjectPrototype == {"toString"}

\* The declaration names of the model (table keys).
Names == {"A", "B", "M1", "M2", "N", "GPU", "NavigatorGPU", "T1", "T2", "E",
          "D", "C", "toString"}

Kinds == {"interface", "interface mixin", "namespace", "dictionary", "enum",
          "typedef", "callback"}

\* itemsByType[kind] before its lazy creation, and a fresh `{}`.
NoTable == [defined |-> FALSE, own |-> [n \in Names |-> Undefined]]
EmptyObject == [defined |-> TRUE, own |-> [n \in Names |-> Undefined]]

\* obj[name]: the own property, else the one inherited from Object.prototype.
Get(obj, name) ==
    IF name \in DOMAIN obj.own /\ obj.own[name] # Undefined THEN obj.own[name]
    ELSE IF name \in ObjectPrototype THEN Inherited
    ELSE Undefined

\* `name in obj`.
In(name, obj) == Get(obj, name) # Undefined

\* obj[name] = value.
Put(obj, name, value) == [obj EXCEPT !.own[name] = value]

\* Type expressions as webidl2 produces them: a bare string, or an object
\* with type/generic/nullable/union and an idlType that is a string or an
\* array of type objects.
Str(s) == [js |-> "string", str |-> s]
Arr(s) == [js |-> "array", items |-> s]
Type(t, generic, nullable, union, idlType) ==
    [js |-> "object", type |-> t, generic |-> generic, nullable |-> nullable,
     union |-> union, idlType |-> idlType]
\* A declaration object passed as a type (allByName[type]).
ItemRef(idx) == IF idx = Inherited THEN [js |-> "function"]
                ELSE [js |-> "item", idx |-> idx]
NoType == [js |-> "undefined"]

Simple(t, name) == Type(t, "", FALSE, FALSE, Str(name))

(***************************************************************************)
(* Declarations and members.                                               *)
(***************************************************************************)
Member(t, name, idlType, readonly) ==
    [type |-> t, name |-> name, idlType |-> idlType, readonly |-> readonly]

Attribute(name, idlType) == Member("attribute", name, idlType, FALSE)
Operation(name, idlType) == Member("operation", name, idlType, FALSE)
Const(name, idlType) == Member("const", name, idlType, FALSE)
Constructor == Member("constructor", "", NoType, FALSE)
Setlike(idlType, readonly) == Member("setlike", "", Arr(<<idlType>>), readonly)

Decl(t, name, partial, mems, ext) ==
    [type |-> t, name |-> name, partial |-> partial, members |-> mems,
     extAttrs |-> ext, idlType |-> NoType, includes |-> "", target |-> ""]

Typedef(name, idlType) ==
    [type |-> "typedef", name |-> name, partial |-> FALSE, members |-> <<>>,
     extAttrs |-> <<>>, idlType |-> idlType, includes |-> "", target |-> ""]

Includes(target, mixin) ==
    [type |-> "includes", name |-> "", partial |-> FALSE, members |-> <<>>,
     extAttrs |-> <<>>, idlType |-> NoType, includes |-> mixin, target |-> target]

(***************************************************************************)
(* Results of a call: a returned value, or an exception thrown.            *)
(***************************************************************************)
Ok(v) == [err |-> "", val |-> v]
Throw(msg) == [err |-> msg, val |-> ""]

\* assert(condition, msg) of the script, as the message it throws.
assert(msg) == Throw("assert failed: " \o msg)

\* The engine's error when the recursion exhausts the call stack.
RangeError == "RangeError: Maximum call stack size exceeded"
\* The engine's error for a property read or an iteration on undefined.
TypeError == "TypeError"

(***************************************************************************)
(* builtinToClosure and typeToClosure.                                     *)
(***************************************************************************)
builtinToClosure(typeName, outerNullable) ==
    IF outerNullable THEN assert("unimplemented")
    ELSE IF typeName = "undefined" THEN Ok("undefined")
    ELSE IF typeName = "boolean" THEN Ok("boolean")
    ELSE IF typeName \in {"unsigned long", "unsigned long long"} THEN Ok("number")
    ELSE IF typeName \in {"DOMString", "USVString"} THEN Ok("string")
    ELSE IF typeName \in {"HTMLCanvasElement", "OffscreenCanvas", "ArrayBuffer"}
         THEN Ok("!" \o typeName)
    ELSE IF typeName = "EventHandler" THEN Ok("!Function")
    ELSE assert("unknown builtin name: " \o typeName)

\* type.type, type.union, type.nullable, type.generic, type.name of a value
\* that is a type object, a declaration or a function.
TypeOf(type) ==
    IF type.js = "item" THEN parsed[type.idx].type
    ELSE IF type.js = "object" THEN type.type
    ELSE "undefined"
IsUnion(type) == type.js = "object" /\ type.union
IsNullable(type) == type.js = "object" /\ type.nullable
HasArrayIdlType(type) == type.js = "object" /\ type.idlType.js = "array"

TypeRoles == {"null", "return-type", "typedef-type", "attribute-type", "const-type"}

RECURSIVE typeToClosure(_, _, _)
RECURSIVE mapJoin(_, _, _)

\* A typedef branch that hands the outer nullability on to the aliased type
\* instead of rejecting it.
typedefToClosureNullable(type, outerNullable, depth) ==
    typeToClosure(parsed[type.idx].idlType, outerNullable, depth + 1)

\* The branch of typeToClosure for a declaration that is a typedef.
typedefToClosure(type, outerNullable, depth) ==
    IF outerNullable THEN assert("unimplemented")
    ELSE typeToClosure(parsed[type.idx].idlType, FALSE, depth + 1)

\* type.idlType.map(t => typeToClosure(t, outerNullable)).join('|')
mapJoin(items, outerNullable, depth) ==
    IF items = <<>> THEN Ok("")
    ELSE LET head == typeToClosure(Head(items), outerNullable, depth)
             rest == mapJoin(Tail(items), outerNullable, depth)
         IN IF head.err # "" THEN head
            ELSE IF rest.err # "" THEN rest
            ELSE IF Tail(items) = <<>> THEN head
            ELSE Ok(head.val \o "|" \o rest.val)

\* typeToClosure(type, outerNullable); depth is the number of its frames on
\* the call stack.
typeToClosure(type, outerNullable, depth) ==
    IF depth > MaxStack THEN Throw(RangeError)
    ELSE IF type.js = "string" THEN
        LET typeItem == Get(allByName, type.str) IN
        IF typeItem = Undefined THEN builtinToClosure(type.str, outerNullable)
        ELSE typeToClosure(ItemRef(typeItem), outerNullable, depth + 1)
    ELSE IF TypeOf(type) = "typedef" THEN typedefToClosure(type, outerNullable, depth)
    ELSE IF IsUnion(type) THEN
        IF outerNullable THEN assert("unimplemented")
        ELSE mapJoin(type.idlType.items, outerNullable, depth + 1)
    ELSE IF HasArrayIdlType(type) /\ Len(type.idlType.items) # 1
        THEN assert("idlType should be length 1")
    ELSE
        LET nullable == IsNullable(type) \/ outerNullable
            prefix == IF nullable THEN "?" ELSE "!"
        IN
        IF TypeOf(type) \in TypeRoles THEN
            IF type.generic = "" THEN typeToClosure(type.idlType, nullable, depth + 1)
            ELSE IF type.generic \in {"FrozenArray", "Promise"} THEN
                IF ~HasArrayIdlType(type) THEN assert("undefined")
                ELSE LET arg == typeToClosure(type.idlType.items[1], FALSE, depth + 1)
                         ctor == IF type.generic = "FrozenArray" THEN "Array" ELSE "Promise"
                     IN IF arg.err # "" THEN arg
                        ELSE Ok(prefix \o ctor \o "<" \o arg.val \o ">")
            ELSE assert("unimplemented typeToClosure generic: " \o type.generic)
        ELSE IF TypeOf(type) = "interface" THEN Ok(prefix \o parsed[type.idx].name)
        ELSE IF TypeOf(type) = "enum" THEN Ok("string")
        ELSE assert("unimplemented typeToClosure type: " \o TypeOf(type))

(***************************************************************************)
(* The text written by the emission loops.                                 *)
(***************************************************************************)
\* The state of an emission loop body: the lines written so far and the
\* exception thrown, if any.
Out(lines, err) == [lines |-> lines, err |-> err]

Header == "// Generated using https://github.com/kainino0x/webidl-to-closure-externs"

typeLine(typeNameClosure) == "/** @type {" \o typeNameClosure \o "} */"
returnLine(typeNameClosure) == "/** @return {" \o typeNameClosure \o "} */"
propertyLine(parent, name) == parent \o ".prototype." \o name \o ";"
methodLine(parent, name) == parent \o ".prototype." \o name \o " = function() {};"
constLine(parent, name) == parent \o "." \o name \o ";"
namespaceLine(name) == "const " \o name \o " = {};"
constructorLines(name) == <<"/** @constructor */", "function " \o name \o "() {}">>

\* The six declarations a setlike member expands to.
setlikeLines(name, iterType) ==
    << typeLine("number"), propertyLine(name, "size"),
       returnLine("!Iterable<" \o iterType \o ">"), methodLine(name, "entries"),
       returnLine("!Iterable<" \o iterType \o ">"), methodLine(name, "keys"),
       returnLine("!Iterable<" \o iterType \o ">"), methodLine(name, "values"),
       returnLine("undefined"), methodLine(name, "forEach"),
       returnLine("boolean"), methodLine(name, "has") >>

\* An emission that leaves every annotation as the resolver returned it.
forceNullableNever(typeNameClosure) == typeNameClosure

\* navigator.gpu can be missing: the annotation !GPU is emitted as ?GPU.
forceNullable(typeNameClosure) ==
    IF typeNameClosure = "!GPU" THEN "?GPU" ELSE typeNameClosure

\* The switch on member.type of the externalIncludes loop.
externalMember(parent, member, lines) ==
    IF member.type = "attribute" THEN
        LET r == typeToClosure(member.idlType, FALSE, 1) IN
        IF r.err # "" THEN Out(lines, r.err)
        ELSE Out(lines \o <<typeLine(forceNullable(r.val)),
                            propertyLine(parent, member.name)>>, "")
    ELSE Out(lines, assert("unimplemented navigator mixin member type: "
                           \o member.type).err)

RECURSIVE externalMembers(_, _, _)
externalMembers(parent, mems, out) ==
    IF out.err # "" \/ mems = <<>> THEN out
    ELSE externalMembers(parent, Tail(mems),
                         externalMember(parent, Head(mems), out.lines))

\* for (const mixin of mixins) for (const member of mixin.members): a mixin
\* that is an inherited function has no members to iterate.
RECURSIVE externalMixins(_, _, _)
externalMixins(parent, mixs, out) ==
    IF out.err # "" \/ mixs = <<>> THEN out
    ELSE IF Head(mixs) = Inherited THEN Out(out.lines, TypeError)
    ELSE externalMixins(parent, Tail(mixs),
                        externalMembers(parent, members[Head(mixs)], out))

\* The switch on member.type of the namespace loop.
namespaceMember(name, member, lines) ==
    IF member.type = "const" THEN
        LET r == typeToClosure(member.idlType, FALSE, 1) IN
        IF r.err # "" THEN Out(lines, r.err)
        ELSE Out(lines \o <<typeLine(r.val), constLine(name, member.name)>>, "")
    ELSE Out(lines, assert("unimplemented namespace member type: "
                           \o member.type).err)

RECURSIVE namespaceMembers(_, _, _)
namespaceMembers(name, mems, out) ==
    IF out.err # "" \/ mems = <<>> THEN out
    ELSE namespaceMembers(name, Tail(mems),
                          namespaceMember(name, Head(mems), out.lines))

\* An element of the flattened member list that is undefined (the members
\* of a mixin that is an inherited function).
UndefinedMember == Member("undefined", "", NoType, FALSE)

\* The switch on member.type of the interface loop.
interfaceMember(name, member, lines) ==
    IF member = UndefinedMember THEN Out(lines, TypeError)
    ELSE IF member.type = "constructor" THEN Out(lines, "")
    ELSE IF member.type = "attribute" THEN
        LET r == typeToClosure(member.idlType, FALSE, 1) IN
        IF r.err # "" THEN Out(lines, r.err)
        ELSE Out(lines \o <<typeLine(r.val), propertyLine(name, member.name)>>, "")
    ELSE IF member.type = "operation" THEN
        LET r == typeToClosure(member.idlType, FALSE, 1) IN
        IF r.err # "" THEN Out(lines, r.err)
        ELSE Out(lines \o <<returnLine(r.val), methodLine(name, member.name)>>, "")
    ELSE IF member.type = "setlike" THEN
        IF ~(member.idlType.js = "array" /\ Len(member.idlType.items) = 1)
        THEN Out(lines, assert("undefined").err)
        ELSE LET r == typeToClosure(member.idlType.items[1], FALSE, 1) IN
             IF r.err # "" THEN Out(lines, r.err)
             ELSE Out(lines \o setlikeLines(name, r.val),
                      IF member.readonly THEN ""
                      ELSE assert("unimplemented non-readonly setlike").err)
    ELSE Out(lines, assert("unimplemented interface member type: "
                           \o member.type).err)

RECURSIVE interfaceMembers(_, _, _)
interfaceMembers(name, mems, out) ==
    IF out.err # "" \/ mems = <<>> THEN out
    ELSE interfaceMembers(name, Tail(mems),
                          interfaceMember(name, Head(mems), out.lines))

\* item.mixins.map(m => m.members).flat()
RECURSIVE mixinMembers(_)
mixinMembers(mixs) ==
    IF mixs = <<>> THEN <<>>
    ELSE (IF Head(mixs) = Inherited THEN <<UndefinedMember>>
          ELSE members[Head(mixs)]) \o mixinMembers(Tail(mixs))

\* A member list that puts the interface's own members first.
allMembersOwnFirst(item) == members[item] \o mixinMembers(mixins[item])

\* [...item.mixins.map(m => m.members).flat(), ...item.members]
allMembers(item) == mixinMembers(mixins[item]) \o members[item]

\* Object.values(table): the declarations of a table in insertion order,
\* which is their order in the declaration list.
RECURSIVE Ascending(_)
Ascending(S) ==
    IF S = {} THEN <<>>
    ELSE LET m == CHOOSE x \in S : \A y \in S : x <= y
         IN <<m>> \o Ascending(S \ {m})
ObjectValues(table) ==
    Ascending({table.own[n] : n \in DOMAIN table.own} \ {Undefined})

\* Object.entries(externalIncludes), in insertion order.
ExternalTargets == <<"Navigator", "WorkerNavigator">>

(***************************************************************************)
(* The script.                                                             *)
(***************************************************************************)
SupportedKinds == {"interface", "dictionary", "namespace", "interface mixin",
                   "enum", "typedef"}

\* array.push(...elements)
push(array, elements) == array \o elements

NoFile == [exists |-> FALSE, data |-> <<>>]

\* The `continue` conditions of the three loops over the declaration list.
Skipped(loop, item) ==
    IF loop = "index" THEN item.partial \/ item.type = "includes"
    ELSE IF loop = "includes" THEN item.type # "includes"
    ELSE ~item.partial

\* The first position from k on that a loop does not skip, or the position
\* after the list.
RECURSIVE Continue(_, _, _)
Continue(loop, list, k) ==
    IF k > Len(list) \/ ~Skipped(loop, list[k]) THEN k
    ELSE Continue(loop, list, k + 1)

\* The state when the loops start.
Start(input) ==
    /\ parsed = input
    /\ pc = "index"
    /\ i = Continue("index", input, 1)
    /\ itemsByType = [k \in Kinds |-> NoTable]
    /\ allByName = EmptyObject
    /\ externalIncludes = [Navigator |-> <<>>, WorkerNavigator |-> <<>>]
    /\ mixins = [j \in 1..Len(input) |-> <<>>]
    /\ members = [j \in 1..Len(input) |-> input[j].members]
    /\ extAttrs = [j \in 1..Len(input) |-> input[j].extAttrs]
    /\ result = <<>>
    /\ outFile = NoFile
    /\ error = ""

\* One iteration of the loop over non-partial items (the iterations that
\* `continue` change nothing and are passed over).
IndexItem ==
    /\ pc = "index" /\ error = ""
    /\ UNCHANGED <<parsed, externalIncludes, members, extAttrs, result, outFile>>
    /\ IF i > Len(parsed)
       THEN /\ pc' = "includes" /\ i' = Continue("includes", parsed, 1)
            /\ UNCHANGED <<itemsByType, allByName, mixins, error>>
       ELSE LET item == parsed[i]
                created == IF itemsByType[item.type].defined THEN itemsByType
                           ELSE [itemsByType EXCEPT ![item.type] = EmptyObject]
            IN
            IF In(item.name, created[item.type])
            THEN /\ itemsByType' = created
                 /\ error' = assert("duplicate name: " \o item.name).err
                 /\ UNCHANGED <<pc, i, allByName, mixins>>
            ELSE /\ itemsByType' = [created EXCEPT ![item.type] = Put(@, item.name, i)]
                 /\ allByName' = Put(allByName, item.name, i)
                 /\ mixins' = IF item.type = "interface"
                              THEN [mixins EXCEPT ![i] = <<>>] ELSE mixins
                 /\ IF item.type \in SupportedKinds
                    THEN i' = Continue("index", parsed, i + 1) /\ error' = ""
                    ELSE /\ i' = i
                         /\ error' = assert("unimplemented top-level item type: "
                                            \o item.type).err
                 /\ pc' = pc

\* One iteration of the loop over includes.
IncludeItem ==
    /\ pc = "includes" /\ error = ""
    /\ UNCHANGED <<parsed, itemsByType, allByName, members, extAttrs, result, outFile>>
    /\ IF i > Len(parsed)
       THEN /\ pc' = "partials" /\ i' = Continue("partials", parsed, 1)
            /\ UNCHANGED <<externalIncludes, mixins, error>>
       ELSE LET include == parsed[i]
                included == Get(itemsByType["interface mixin"], include.includes)
                item == Get(itemsByType["interface"], include.target)
            IN
            IF ~itemsByType["interface mixin"].defined
            THEN error' = TypeError /\ UNCHANGED <<pc, i, externalIncludes, mixins>>
            ELSE IF included = Undefined
            THEN /\ error' = assert("unknown include mixin").err
                 /\ UNCHANGED <<pc, i, externalIncludes, mixins>>
            ELSE IF include.target \in {"Navigator", "WorkerNavigator"}
            THEN /\ externalIncludes' =
                     [externalIncludes EXCEPT ![include.target] = push(@, <<included>>)]
                 /\ i' = Continue("includes", parsed, i + 1)
                 /\ UNCHANGED <<pc, mixins, error>>
            ELSE IF ~itemsByType["interface"].defined \/ item \in {Undefined, Inherited}
            THEN error' = TypeError /\ UNCHANGED <<pc, i, externalIncludes, mixins>>
            ELSE /\ mixins' = [mixins EXCEPT ![item] = push(@, <<included>>)]
                 /\ i' = Continue("includes", parsed, i + 1)
                 /\ UNCHANGED <<pc, externalIncludes, error>>

\* A patch that puts the partial's members in front (unshift for push).
unshiftMembers(array, elements) == elements \o array

\* item.members.push(...partial.members)
pushMembers(array, elements) == push(array, elements)

\* One iteration of the loop over partial items; leaving the loop, the
\* script writes the header line.
PartialItem ==
    /\ pc = "partials" /\ error = ""
    /\ UNCHANGED <<parsed, itemsByType, allByName, externalIncludes, mixins, outFile>>
    /\ IF i > Len(parsed)
       THEN /\ pc' = "external" /\ i' = 1
            /\ result' = <<Header>>
            /\ UNCHANGED <<members, extAttrs, error>>
       ELSE LET partial == parsed[i]
                item == Get(itemsByType[partial.type], partial.name)
            IN
            IF ~itemsByType[partial.type].defined \/ item \in {Undefined, Inherited}
            THEN error' = TypeError /\ UNCHANGED <<pc, i, members, extAttrs, result>>
            ELSE /\ extAttrs' = [extAttrs EXCEPT ![item] = push(@, partial.extAttrs)]
                 /\ IF partial.type \in {"interface", "interface mixin"}
                    THEN /\ members' = [members EXCEPT
                                          ![item] = pushMembers(@, partial.members)]
                         /\ i' = Continue("partials", parsed, i + 1) /\ error' = ""
                    ELSE /\ error' = assert("unimplemented partial type: "
                                            \o partial.type).err
                         /\ UNCHANGED <<i, members>>
                 /\ UNCHANGED <<pc, result>>

\* One iteration of the loop over Object.entries(externalIncludes).
EmitExternal ==
    /\ pc = "external" /\ error = ""
    /\ UNCHANGED <<parsed, itemsByType, allByName, externalIncludes, mixins,
                   members, extAttrs, outFile>>
    /\ IF i > Len(ExternalTargets)
       THEN pc' = "namespace" /\ i' = 1 /\ UNCHANGED <<result, error>>
       ELSE LET parent == ExternalTargets[i]
                out == externalMixins(parent, externalIncludes[parent],
                                      Out(result \o <<"">>, ""))
            IN /\ result' = out.lines
               /\ error' = out.err
               /\ i' = IF out.err = "" THEN i + 1 ELSE i
               /\ pc' = pc

\* One iteration of the loop over Object.values(itemsByType['namespace']).
EmitNamespace ==
    /\ pc = "namespace" /\ error = ""
    /\ UNCHANGED <<parsed, itemsByType, allByName, externalIncludes, mixins,
                   members, extAttrs, outFile>>
    /\ IF ~itemsByType["namespace"].defined
       THEN error' = TypeError /\ UNCHANGED <<pc, i, result>>
       ELSE LET items == ObjectValues(itemsByType["namespace"]) IN
            IF i > Len(items)
            THEN pc' = "interface" /\ i' = 1 /\ UNCHANGED <<result, error>>
            ELSE LET item == items[i]
                     name == parsed[item].name
                     out == namespaceMembers(name, members[item],
                                Out(result \o <<"", namespaceLine(name)>>, ""))
                 IN /\ result' = out.lines
                    /\ error' = out.err
                    /\ i' = IF out.err = "" THEN i + 1 ELSE i
                    /\ pc' = pc

\* One iteration of the loop over Object.values(itemsByType['interface']).
EmitInterface ==
    /\ pc = "interface" /\ error = ""
    /\ UNCHANGED <<parsed, itemsByType, allByName, externalIncludes, mixins,
                   members, extAttrs, outFile>>
    /\ IF ~itemsByType["interface"].defined
       THEN error' = TypeError /\ UNCHANGED <<pc, i, result>>
       ELSE LET items == ObjectValues(itemsByType["interface"]) IN
            IF i > Len(items)
            THEN pc' = "write" /\ i' = 1 /\ UNCHANGED <<result, error>>
            ELSE LET item == items[i]
                     name == parsed[item].name
                     out == interfaceMembers(name, allMembers(item),
                                Out(result \o <<"">> \o constructorLines(name), ""))
                 IN /\ result' = out.lines
                    /\ error' = out.err
                    /\ i' = IF out.err = "" THEN i + 1 ELSE i
                    /\ pc' = pc

\* A write that also happens when an emission loop has thrown (a write in a
\* finally block).
WriteFileFinally ==
    /\ \/ pc = "write" /\ error = ""
       \/ pc \in {"external", "namespace", "interface"} /\ error # ""
    /\ ~outFile.exists
    /\ outFile' = [exists |-> TRUE, data |-> result]
    /\ pc' = IF error = "" THEN "closure" ELSE pc
    /\ UNCHANGED <<parsed, i, itemsByType, allByName, externalIncludes, mixins,
                   members, extAttrs, result, error>>

\* fs.writeFileSync(filename + '.js', result)
WriteFile ==
    /\ pc = "write" /\ error = ""
    /\ outFile' = [exists |-> TRUE, data |-> result]
    /\ pc' = "closure"
    /\ UNCHANGED <<parsed, i, itemsByType, allByName, externalIncludes, mixins,
                   members, extAttrs, result, error>>

\* The Closure Compiler run on the written file and the assert on its status.
RunClosure ==
    /\ pc = "closure" /\ error = ""
    /\ \E status \in {0, 1} :
          IF status = 0 THEN pc' = "done" /\ error' = ""
          ELSE pc' = pc /\ error' = assert("Closure failed with exit code 1").err
    /\ UNCHANGED <<parsed, i, itemsByType, allByName, externalIncludes, mixins,
                   members, extAttrs, result, outFile>>

Next ==
    \/ IndexItem
    \/ IncludeItem
    \/ PartialItem
    \/ EmitExternal
    \/ EmitNamespace
    \/ EmitInterface
    \/ WriteFile
    \/ RunClosure

(***************************************************************************)
(* The declaration lists the script is run on.                             *)
(***************************************************************************)
\* The sequences of at most n distinct elements of S.
RECURSIVE Arrangements(_, _)
Arrangements(S, n) ==
    IF n = 0 THEN {<<>>}
    ELSE {<<>>} \cup
         UNION {{<<x>> \o s : s \in Arrangements(S \ {x}, n - 1)} : x \in S}

\* The sequences of at most n elements of S.
RECURSIVE Lists(_, _)
Lists(S, n) ==
    IF n = 0 THEN {<<>>}
    ELSE {<<>>} \cup {<<x>> \o s : x \in S, s \in Lists(S, n - 1)}

Bare(t, name) == Decl(t, name, FALSE, <<>>, <<>>)

NamespaceN(constType) ==
    Decl("namespace", "N", FALSE, <<Const("c", constType)>>, <<>>)

\* Merge family: two mixins, an interface, partials of both kinds and the
\* includes-edges between them; all but the first two declarations occur in
\* every order.
MergeFixed ==
    << NamespaceN(Simple("const-type", "unsigned long")),
       Decl("interface mixin", "M2", FALSE,
            <<Operation("destroy", Simple("return-type", "undefined"))>>, <<>>) >>

MergePool ==
    << Decl("interface mixin", "M1", FALSE,
            <<Attribute("label", Simple("attribute-type", "DOMString"))>>, <<>>),
       Decl("interface", "A", FALSE,
            <<Constructor, Attribute("own", Simple("attribute-type", "boolean"))>>, <<>>),
       Decl("interface", "A", TRUE,
            <<Attribute("extra", Simple("attribute-type", "boolean"))>>, <<"Exposed">>),
       Decl("interface", "A", TRUE,
            <<Operation("later", Simple("return-type", "DOMString"))>>, <<>>),
       Decl("interface mixin", "M1", TRUE,
            <<Attribute("more", Simple("attribute-type", "USVString"))>>,
            <<"SecureContext">>),
       Includes("A", "M1"),
       Includes("A", "M2") >>

\* The declarations of a pool at the positions s names.
Pick(pool, s) == [k \in 1..Len(s) |-> pool[s[k]]]

MergeInput(s) == MergeFixed \o Pick(MergePool, s)

\* Types family: a fixed declaration list whose type expressions vary.
Nullable(t, name) == Type(t, "", TRUE, FALSE, Str(name))
Generic(t, generic, nullable, args) == Type(t, generic, nullable, FALSE, Arr(args))
Union(t, nullable, args) == Type(t, "", nullable, TRUE, Arr(args))

TypedefBodies1 ==
    { Simple("typedef-type", "unsigned long"),
      Simple("typedef-type", "GPU"),
      Simple("typedef-type", "T2"),
      Simple("typedef-type", "T1"),
      Generic("typedef-type", "FrozenArray", FALSE, <<Simple("null", "T2")>>) }

TypedefBodies2 ==
    { Simple("typedef-type", "unsigned long"),
      Simple("typedef-type", "T1"),
      Simple("typedef-type", "E") }

AttributeTypes ==
    { Simple("attribute-type", "GPU"),
      Nullable("attribute-type", "GPU"),
      Simple("attribute-type", "DOMString"),
      Nullable("attribute-type", "DOMString"),
      Simple("attribute-type", "T1"),
      Nullable("attribute-type", "T1"),
      Simple("attribute-type", "D"),
      Simple("attribute-type", "Foo"),
      Simple("attribute-type", "toString"),
      Union("attribute-type", FALSE, <<Simple("null", "DOMString"), Simple("null", "GPU")>>),
      Union("attribute-type", TRUE, <<Simple("null", "DOMString"), Simple("null", "boolean")>>),
      Generic("attribute-type", "FrozenArray", TRUE, <<Simple("null", "GPU")>>),
      Generic("attribute-type", "Promise", FALSE, <<Nullable("null", "GPU")>>),
      Generic("attribute-type", "sequence", FALSE, <<Simple("null", "DOMString")>>),
      Generic("attribute-type", "record", FALSE,
              <<Simple("null", "DOMString"), Simple("null", "boolean")>>) }

ConstTypes ==
    { Simple("const-type", "T1"),
      Simple("const-type", "T2"),
      Simple("const-type", "unsigned long long") }

TypesInput(body1, body2, name, attrType, target, constType, readonly) ==
    << Typedef("T1", body1),
       Typedef("T2", body2),
       Bare("enum", "E"),
       Bare("dictionary", "D"),
       Decl("interface", "GPU", FALSE,
            <<Setlike(Simple("null", "DOMString"), readonly)>>, <<>>),
       Decl("interface mixin", "NavigatorGPU", FALSE, <<Attribute(name, attrType)>>, <<>>),
       Includes(target, "NavigatorGPU"),
       NamespaceN(constType) >>

\* Indexing family: short lists of declarations in which names repeat, kinds
\* are missing and includes-edges and partials are unresolved.
IndexPool ==
    << Bare("interface", "A"),
       Bare("interface mixin", "M1"),
       Bare("namespace", "N"),
       Bare("callback", "C"),
       Bare("interface", "toString"),
       Decl("interface", "A", TRUE, <<>>, <<>>),
       Includes("A", "M1"),
       Includes("Navigator", "M1"),
       Includes("Navigator", "toString"),
       Includes("B", "M1"),
       Includes("A", "M2") >>

IndexInput(s) == Pick(IndexPool, s)

InitMerge ==
    \E s \in Arrangements(DOMAIN MergePool, MaxMerge) : Start(MergeInput(s))

InitTypes ==
    \E body1 \in TypedefBodies1, body2 \in TypedefBodies2, name \in {"gpu", "foo"},
       attrType \in AttributeTypes, target \in {"Navigator", "WorkerNavigator"},
       constType \in ConstTypes, readonly \in BOOLEAN :
        Start(TypesInput(body1, body2, name, attrType, target, constType, readonly))

InitIndex ==
    \E s \in Lists(DOMAIN IndexPool, MaxIndex) : Start(IndexInput(s))

Init == InitMerge \/ InitTypes \/ InitIndex

Spec == Init /\ [][Next]_vars

(***************************************************************************)
(* What the declaration list itself says, read off `parsed` alone.         *)
(***************************************************************************)
Positions == 1..Len(parsed)

IsCanonical(j) == ~parsed[j].partial /\ parsed[j].type # "includes"

Declared(kind, name) ==
    \E j \in Positions : IsCanonical(j) /\ parsed[j].type = kind /\ parsed[j].name = name

Canonical(kind, name) ==
    CHOOSE j \in Positions :
        IsCanonical(j) /\ parsed[j].type = kind /\ parsed[j].name = name

\* The members of the partials of (kind, name) from position k on, in
\* source order.
RECURSIVE PartialMembers(_, _, _)
PartialMembers(kind, name, k) ==
    IF k > Len(parsed) THEN <<>>
    ELSE (IF parsed[k].partial /\ parsed[k].type = kind /\ parsed[k].name = name
          THEN parsed[k].members ELSE <<>>) \o PartialMembers(kind, name, k + 1)

\* A declaration's own members followed by those of its partials.
DeclaredMembers(kind, name) ==
    parsed[Canonical(kind, name)].members \o PartialMembers(kind, name, 1)

\* The members of the mixins that the includes-edges targeting `name` from
\* position k on attach, edge by edge in source order.
RECURSIVE IncludedMembers(_, _)
IncludedMembers(name, k) ==
    IF k > Len(parsed) THEN <<>>
    ELSE (IF parsed[k].type = "includes" /\ parsed[k].target = name
          THEN DeclaredMembers("interface mixin", parsed[k].includes)
          ELSE <<>>) \o IncludedMembers(name, k + 1)

\* The lines of the block the document holds for interface `name`: those
\* after its constructor declaration, up to the next blank line.
ConstructorAt(name) ==
    CHOOSE p \in 1..Len(result) : result[p] = constructorLines(name)[2]
BlockEnd(p) ==
    CHOOSE q \in (p + 1)..(Len(result) + 1) :
        /\ q = Len(result) + 1 \/ result[q] = ""
        /\ \A r \in (p + 1)..(q - 1) : result[r] # ""
InterfaceBlock(name) ==
    LET p == ConstructorAt(name) IN SubSeq(result, p + 1, BlockEnd(p) - 1)

HasBlock(name) == \E p \in 1..Len(result) : result[p] = constructorLines(name)[2]

\* The lines one member of an interface is emitted as.
MemberLines(name, member) == interfaceMember(name, member, <<>>).lines

RECURSIVE MembersLines(_, _)
MembersLines(name, mems) ==
    IF mems = <<>> THEN <<>>
    ELSE MemberLines(name, Head(mems)) \o MembersLines(name, Tail(mems))

EmissionDone == pc \in {"write", "closure", "done"}
MergingDone == pc \notin {"index", "includes", "partials"}
IndexingDone == pc # "index"

InterfaceNames == {parsed[j].name : j \in {k \in Positions :
                       IsCanonical(k) /\ parsed[k].type = "interface"}}

(***************************************************************************)
(* C1: once emission has completed, the block of every interface holds the *)
(* members of the mixins named by its includes-edges, edge by edge in the  *)
(* source order of the edges, and then the interface's own members         *)
(* followed by those of its partials; where the mixins are declared plays  *)
(* no part.                                                                *)
(***************************************************************************)
C1_MixinsThenOwnInEdgeOrder ==
    EmissionDone =>
        \A name \in InterfaceNames :
            /\ HasBlock(name)
            /\ InterfaceBlock(name) =
                 MembersLines(name, IncludedMembers(name, 1)
                                    \o DeclaredMembers("interface", name))

\* An interface emitted with both mixins, the edge to M1 first although M2
\* is declared first, and with a partial of its own folded in.
C1_Witness ==
    /\ pc = "done"
    /\ \E a \in Positions, m1 \in Positions, m2 \in Positions :
          /\ IsCanonical(a) /\ parsed[a].name = "A"
          /\ IsCanonical(m1) /\ parsed[m1].name = "M1"
          /\ IsCanonical(m2) /\ parsed[m2].name = "M2"
          /\ m2 < m1
          /\ mixins[a] = <<m1, m2>>
          /\ Len(members[a]) > Len(parsed[a].members)

(***************************************************************************)
(* C8: once merging has completed, the member sequence of every canonical  *)
(* interface or interface mixin is its own members followed by the members *)
(* of its partials in source order, wherever the partials stand; and once  *)
(* emission has completed, the members a partial gave a mixin are in the   *)
(* block of every interface that includes the mixin.                       *)
(***************************************************************************)
C8_PartialsAppendedInSourceOrder ==
    /\ MergingDone =>
          \A j \in Positions :
              (IsCanonical(j) /\ parsed[j].type \in {"interface", "interface mixin"})
                  => members[j] = parsed[j].members
                                    \o PartialMembers(parsed[j].type, parsed[j].name, 1)
    /\ EmissionDone =>
          \A e \in Positions, q \in Positions :
              ( /\ parsed[e].type = "includes"
                /\ parsed[e].target \in InterfaceNames
                /\ parsed[q].partial
                /\ parsed[q].type = "interface mixin"
                /\ parsed[q].name = parsed[e].includes )
              => \A k \in 1..Len(parsed[q].members) :
                     \A n \in 1..Len(MemberLines(parsed[e].target, parsed[q].members[k])) :
                         \E r \in 1..Len(InterfaceBlock(parsed[e].target)) :
                             InterfaceBlock(parsed[e].target)[r] =
                                 MemberLines(parsed[e].target, parsed[q].members[k])[n]

\* Merging done with two partials of A, one before and one after A, and a
\* partial of the mixin A includes.
C8_Witness ==
    /\ pc = "done"
    /\ \E a \in Positions, p1 \in Positions, p2 \in Positions, q \in Positions,
          e \in Positions :
          /\ IsCanonical(a) /\ parsed[a].type = "interface"
          /\ parsed[p1].partial /\ parsed[p1].type = "interface"
          /\ parsed[p2].partial /\ parsed[p2].type = "interface"
          /\ p1 < a /\ a < p2
          /\ parsed[q].partial /\ parsed[q].type = "interface mixin"
          /\ parsed[e].type = "includes" /\ parsed[e].includes = parsed[q].name
          /\ Len(members[a]) = Len(parsed[a].members) + 2

(***************************************************************************)
(* The block of an external pseudo-target, read off `parsed`.              *)
(***************************************************************************)
ExternalDone == pc \in {"namespace", "interface", "write", "closure", "done"}

\* The annotation of an attribute of an external pseudo-target: scoped to
\* the attribute gpu of Navigator, or decided by the resolved annotation.
ScopedAnnotation(parent, member) ==
    IF parent = "Navigator" /\ member.name = "gpu" THEN "?GPU"
    ELSE typeToClosure(member.idlType, FALSE, 1).val
ResolvedAnnotation(parent, member) ==
    LET r == typeToClosure(member.idlType, FALSE, 1).val
    IN IF r = "!GPU" THEN "?GPU" ELSE r

RECURSIVE AttributeLines(_, _, _)
AttributeLines(scoped, parent, mems) ==
    IF mems = <<>> THEN <<>>
    ELSE << typeLine(IF scoped THEN ScopedAnnotation(parent, Head(mems))
                     ELSE ResolvedAnnotation(parent, Head(mems))),
            propertyLine(parent, Head(mems).name) >>
         \o AttributeLines(scoped, parent, Tail(mems))

ExternalLines(scoped) ==
    <<"">> \o AttributeLines(scoped, "Navigator", IncludedMembers("Navigator", 1))
    \o <<"">> \o AttributeLines(scoped, "WorkerNavigator",
                                IncludedMembers("WorkerNavigator", 1))

ExternalSection(scoped) == SubSeq(result, 2, 1 + Len(ExternalLines(scoped)))

C4_WriteOnlyAfterAllPhases ==
    /\ outFile.exists =>
          /\ pc \in {"closure", "done"}
          /\ outFile.data = result
    /\ (error # "" /\ pc # "closure") => ~outFile.exists

\* A run that failed on a non-readonly setlike after its text was added.
C4_Witness ==
    /\ pc = "interface"
    /\ error = assert("unimplemented non-readonly setlike").err
    /\ \E r \in 1..Len(result) : result[r] = methodLine("GPU", "has")
    /\ ~outFile.exists

(***************************************************************************)
(* C6: for every name the global index binds to a typedef, resolving the   *)
(* name without outer nullability gives exactly what resolving the         *)
(* typedef's underlying type expression gives, resolving it with outer     *)
(* nullability fails, and a const whose type is a typedef aliasing         *)
(* `unsigned long` is emitted with the annotation number.                  *)
(***************************************************************************)
TypedefNames ==
    {n \in Names : /\ Get(allByName, n) \notin {Undefined, Inherited}
                   /\ parsed[Get(allByName, n)].type = "typedef"}

C6_TypedefTransparent ==
    /\ IndexingDone =>
          \A n \in TypedefNames :
              /\ typeToClosure(Str(n), FALSE, 1)
                   = typeToClosure(parsed[Get(allByName, n)].idlType, FALSE, 3)
              /\ typeToClosure(Str(n), TRUE, 1).err # ""
    /\ EmissionDone =>
          \A j \in Positions, n \in TypedefNames :
              ( /\ IsCanonical(j) /\ parsed[j].type = "namespace"
                /\ parsed[Get(allByName, n)].idlType
                     = Simple("typedef-type", "unsigned long") )
              => \A k \in 1..Len(parsed[j].members) :
                     parsed[j].members[k] = Const(parsed[j].members[k].name,
                                                  Simple("const-type", n))
                     => \E r \in 1..(Len(result) - 1) :
                            /\ result[r] = typeLine("number")
                            /\ result[r + 1] = constLine(parsed[j].name,
                                                         parsed[j].members[k].name)

\* A completed run whose const has the type of a typedef of unsigned long,
\* beside a typedef aliasing an interface.
C6_Witness ==
    /\ pc = "done"
    /\ \E j \in Positions, n \in TypedefNames, m \in TypedefNames :
          /\ parsed[j].type = "namespace"
          /\ parsed[j].members = <<Const("c", Simple("const-type", n))>>
          /\ parsed[Get(allByName, n)].idlType = Simple("typedef-type", "unsigned long")
          /\ parsed[Get(allByName, m)].idlType = Simple("typedef-type", "GPU")
          /\ \E r \in 1..(Len(result) - 1) :
                result[r] = typeLine("number") /\ result[r + 1] = constLine("N", "c")

(***************************************************************************)
(* C2: resolving a union type expression whose nullable flag is set, with  *)
(* no outer nullability, fails with the unimplemented error.               *)
(***************************************************************************)
C2_NullableUnionFails ==
    IndexingDone =>
        \A j \in Positions :
            \A k \in 1..Len(parsed[j].members) :
                LET type == parsed[j].members[k].idlType IN
                (IsUnion(type) /\ IsNullable(type))
                    => typeToClosure(type, FALSE, 1).err = assert("unimplemented").err

(***************************************************************************)
(* C9: resolving a declared name never exhausts the call stack: a typedef  *)
(* that reaches itself is reported, the recursion is not left to run on.   *)
(***************************************************************************)
C9_ResolutionBounded ==
    IndexingDone =>
        \A n \in Names : typeToClosure(Str(n), FALSE, 1).err # RangeError

(***************************************************************************)
(* C5: indexing fails with the duplicate-name error exactly when two       *)
(* non-partial, non-includes declarations of one kind share a name, and    *)
(* after a successful indexing every per-kind table maps each declared     *)
(* name to the one such declaration carrying it.                           *)
(***************************************************************************)
DuplicatePair ==
    \E a \in Positions, b \in Positions :
        /\ a < b /\ IsCanonical(a) /\ IsCanonical(b)
        /\ parsed[a].type = parsed[b].type /\ parsed[a].name = parsed[b].name

DuplicateNameError ==
    /\ pc = "index" /\ i \in Positions
    /\ error = assert("duplicate name: " \o parsed[i].name).err

C5_DuplicateErrorExactlyOnDuplicates ==
    /\ (IndexingDone \/ error # "") => (DuplicateNameError <=> DuplicatePair)
    /\ IndexingDone =>
          \A j \in Positions :
              IsCanonical(j) => itemsByType[parsed[j].type].own[parsed[j].name] = j

(***************************************************************************)
(* C7: a declaration list holding an includes-edge whose mixin is not a    *)
(* declared interface mixin, or whose target is neither external           *)
(* pseudo-target nor a declared interface, never gets past include         *)
(* folding.                                                                *)
(***************************************************************************)
UnresolvedEdge ==
    \E e \in Positions :
        /\ parsed[e].type = "includes"
        /\ \/ ~Declared("interface mixin", parsed[e].includes)
           \/ /\ parsed[e].target \notin {"Navigator", "WorkerNavigator"}
              /\ ~Declared("interface", parsed[e].target)

C7_UnresolvedEdgeAbortsInFolding ==
    UnresolvedEdge => pc \in {"index", "includes"}

(***************************************************************************)
(* C10: a valid declaration set without namespaces, or without interfaces, *)
(* is emitted: the run raises no error in its loops.                       *)
(***************************************************************************)
ValidSet ==
    /\ parsed # <<>>
    /\ ~DuplicatePair
    /\ ~UnresolvedEdge
    /\ \A j \in Positions :
          /\ parsed[j].members = <<>>
          /\ parsed[j].name \notin ObjectPrototype
          /\ parsed[j].type \in SupportedKinds \cup {"includes"}
          /\ parsed[j].partial =>
                /\ parsed[j].type \in {"interface", "interface mixin"}
                /\ Declared(parsed[j].type, parsed[j].name)

NoneOfKind(kind) == \A j \in Positions : ~(IsCanonical(j) /\ parsed[j].type = kind)

C10_MissingKindsEmitNothing ==
    (ValidSet /\ (NoneOfKind("namespace") \/ NoneOfKind("interface")))
        => (error = "" \/ pc = "closure")

====
